---- MODULE Spec2Model ----
(***************************************************************************)
(* Mirror dispatch and configuration engine of telegram_mirror.            *)
(*                                                                         *)
(* The Entity Store (users, chats, messages, mirrors) is the committed     *)
(* state of the database.  Every dispatch pass (handle_source_message)     *)
(* runs in its own session: what it writes stays in the pass record until  *)
(* session.commit() and is dropped by session.rollback().                  *)
(* Every await of the pass is a step, so administrative operations and     *)
(* other passes interleave between the steps.                              *)
(***************************************************************************)
EXTENDS Integers, Sequences, FiniteSets, TLC

\* ---------------------------------------------------------------- bounds
MaxPasses == 2          \* inbound source events handled in one behaviour
MaxMirrors == 2         \* Mirror rows ever created in one behaviour
MaxItems == 7           \* message ids of one /copy_message run
MaxTimedItems == 2      \* message ids of one run with a running clock
MaxCountedItems == 4    \* message ids of one run whose end is awaited
MaxClock == 4           \* seconds of the event loop clock within one run

\* handle_copy_message_command: sem = asyncio.Semaphore(6)
GateSize == 6

\* handle_copy_message_command: throttle_seconds = 3.0
Throttle == 3

\* ------------------------------------------------- configuration surface
\* The id lists the program is started with
SourceChatIds == {1, 2}     \* settings.mirror.source_chat_ids
TargetChatIds == {2, 3}     \* settings.mirror.target_chat_ids
AdminUserIds == {1, 3}      \* settings.mirror.admin_user_ids
AllowedUserIds == {1, 2}    \* settings.mirror.allowed_user_ids

ChatIds == {1, 2, 3, 4}     \* 1 source only, 2 both, 3 target only, 4 unconfigured
UserIds == {1, 2, 3, 4}      \* 1 admin and allowed, 2 allowed, 3 admin, 4 the account
Me == 4                     \* filters.me
Commands == {"none", "add_mirror", "remove_mirror", "copy_message"}
MediaKinds == {"photo", "text", "unavailable"}

Passes == 1 .. MaxPasses

NoPath == 0                 \* rendered_image_path is None
TelegramId(p) == 100 + p    \* protocol message id of the event of pass p

VARIABLES
    users,          \* committed User rows
    chats,          \* committed Chat rows
    messages,       \* committed Message rows, by surrogate id
    mirrors,        \* committed Mirror rows
    mirrorSeq,      \* number of Mirror rows inserted so far
    render_images,  \* settings.mirror.render_images
    settings,       \* settings.mirror: the configured id lists
    pass,           \* the dispatch passes: position, session, local objects
    seen,           \* the last event the admin or the logging handler received
    bulk,           \* the /copy_message run: its workers, its clock, its status edits
    media,          \* the normalizer: the event's media attributes and the descriptor
    toggles         \* the toggle_mirror calls in flight: position, mirror, row read

vars == <<users, chats, messages, mirrors, mirrorSeq, render_images,
          settings, pass, seen, bulk, media, toggles>>
store == <<users, chats, messages, mirrors, mirrorSeq>>

\* --------------------------------------------------------------- helpers
RECURSIVE SortedIds(_)
SortedIds(S) ==
    IF S = {} THEN <<>>
    ELSE LET m == CHOOSE x \in S : \A y \in S : x <= y
         IN <<m>> \o SortedIds(S \ {m})

MirrorRow(ms, id) == CHOOSE m \in ms : m.id = id

\* UserRepository.get_by_id / ChatRepository.get_by_id / MirrorRepository.get_by_id
HasUser(us, id) == \E u \in us : u.id = id
HasChat(cs, id) == \E c \in cs : c.id = id
HasMirror(ms, id) == \E m \in ms : m.id = id

\* get_by_source_chat without the is_active condition of its WHERE clause
get_by_source_chat_any(ms, source_chat_id) ==
    LET hit == {m \in ms : m.source_chat_id = source_chat_id}
        ids == SortedIds({m.id : m \in hit})
    IN [k \in 1 .. Len(ids) |-> MirrorRow(hit, ids[k])]

\* MirrorRepository.get_by_source_chat: the active mirrors of a source chat,
\* as the sequence of rows in primary-key order
get_by_source_chat(ms, source_chat_id) ==
    LET hit == {m \in ms : m.source_chat_id = source_chat_id /\ m.is_active}
        ids == SortedIds({m.id : m \in hit})
    IN [k \in 1 .. Len(ids) |-> MirrorRow(hit, ids[k])]

\* MessageRenderer.render_message_as_image: the file name is a function of the
\* message alone (chat id, protocol id, surrogate id), not of the mirror
RenderedPath(message_id) == message_id

\* MessageRenderer.render_message_as_image: what the screenshot writes into the
\* file, the HTML generated with the two flags
RenderedImage(include_media, include_replies) == <<include_media, include_replies>>

\* mark_as_mirrored counting the pass instead of the call
mark_as_mirrored_once(msg, rendered_image_path) ==
    [msg EXCEPT !.is_mirrored = TRUE,
                !.mirror_count = 1,
                !.rendered_image_path = rendered_image_path]

\* mark_as_mirrored setting the flag without counting
mark_as_mirrored_flag(msg, rendered_image_path) ==
    [msg EXCEPT !.is_mirrored = TRUE,
                !.rendered_image_path = rendered_image_path]

\* MessageRepository.mark_as_mirrored on the session's Message object
mark_as_mirrored(msg, rendered_image_path) ==
    [msg EXCEPT !.is_mirrored = TRUE,
                !.mirror_count = @ + 1,
                !.rendered_image_path = rendered_image_path]

\* toggle_active switching the row off instead of negating the flag
toggle_active_off(ms, mirror_id) ==
    {IF m.id = mirror_id THEN [m EXCEPT !.is_active = FALSE] ELSE m : m \in ms}

\* MirrorRepository.toggle_active: the UPDATE of one row
toggle_active(ms, mirror_id) ==
    {IF m.id = mirror_id THEN [m EXCEPT !.is_active = ~m.is_active] ELSE m : m \in ms}

\* delete_mirror as a soft delete: the row stays, switched off
delete_mirror_soft(ms, mirror_id) ==
    {IF m.id = mirror_id THEN [m EXCEPT !.is_active = FALSE] ELSE m : m \in ms}

\* MirrorRepository.delete_mirror: the DELETE of one row
delete_mirror(ms, mirror_id) == {m \in ms : m.id # mirror_id}

\* MirrorRepository.create: the new row (is_active takes the column default).
\* serial is no column: it is the position of the row among all inserted rows,
\* and tells apart two rows that got the same id one after the other.
NewMirror(id, serial, source_chat_id, target_chat_id, target_topic_id, render_as_image, include_media, include_replies) ==
    [id |-> id, serial |-> serial, source_chat_id |-> source_chat_id, target_chat_id |-> target_chat_id,
     target_topic_id |-> target_topic_id, is_active |-> TRUE,
     render_as_image |-> render_as_image, include_media |-> include_media,
     include_replies |-> include_replies]

\* update_info classifying the chat again from the configured lists
update_info_reclassify(cs, chat_id, title) ==
    {IF c.id = chat_id
     THEN [c EXCEPT !.title = IF title = "None" THEN @ ELSE title,
                    !.is_source = chat_id \in settings.source_chat_ids,
                    !.is_target = chat_id \in settings.target_chat_ids]
     ELSE c : c \in cs}

\* ChatRepository.update_info: only the fields that are not None are written
update_info(cs, chat_id, title) ==
    IF title = "None" THEN cs
    ELSE {IF c.id = chat_id THEN [c EXCEPT !.title = title] ELSE c : c \in cs}

\* Mirror.id, autoincrement: the id the store gives the next row.  A sequence
\* gives an id never given before; the default store (sqlite, where the column
\* is a rowid without AUTOINCREMENT) gives the largest id in the table plus one,
\* which is the id of the last row again after that row was deleted.
MaxId(ms) == IF ms = {} THEN 0 ELSE CHOOSE i \in {m.id : m \in ms} : \A m \in ms : m.id <= i
NewMirrorIds(ms, seq) == {MaxId(ms) + 1, seq + 1}

\* serials of Mirror rows that were created and deleted again
DeletedMirrors == (1 .. mirrorSeq) \ {m.serial : m \in mirrors}

\* --------------------------------------------------- event routing
\* An inbound event as the filters see it: chat, sender (0 = no sender, a channel
\* post; Me = the account itself), cmd (the command the text starts with).
Events == [chat : ChatIds, user : UserIds \cup {0}, cmd : Commands]

\* source_chat_filter taking the target chats as well
source_chat_filter_mirror(e) == e.chat \in settings.source_chat_ids \cup settings.target_chat_ids

\* setup_handlers: filters.chat(source_chat_ids) and the other filters
source_chat_filter(e) == e.chat \in settings.source_chat_ids
allowed_user_filter(e) == e.user \in settings.allowed_user_ids
admin_filter(e) == e.user \in settings.admin_user_ids \/ e.user = Me
command_filter(e) == e.cmd # "none"
mirror_chat_filter(e) ==
    e.chat \in settings.source_chat_ids \/ e.chat \in settings.target_chat_ids

\* Route with the source handler registered for every mirror chat
RouteMirrorChats(e) ==
    IF admin_filter(e) /\ command_filter(e) THEN "admin"
    ELSE IF mirror_chat_filter(e) /\ allowed_user_filter(e) THEN "source"
    ELSE IF mirror_chat_filter(e) THEN "log"
    ELSE "none"

\* setup_handlers: the handlers are tried in the order they were added and the
\* first whose filter matches handles the event
Route(e) ==
    IF admin_filter(e) /\ command_filter(e) THEN "admin"
    ELSE IF source_chat_filter(e) /\ allowed_user_filter(e) THEN "source"
    ELSE IF mirror_chat_filter(e) THEN "log"
    ELSE "none"

\* ------------------------------------------------------------- Init
StartSettings ==
    [source_chat_ids |-> SourceChatIds, target_chat_ids |-> TargetChatIds,
     admin_user_ids |-> AdminUserIds, allowed_user_ids |-> AllowedUserIds]

\* The texts of the status message, <<kind, number>>: "start" is the line of
\* item idx, "progress" the line of the done-th finished item (its ok and fail
\* counts go with done), "check" the first line of _save_one_message, the same
\* for every item; "ok" and "fail" start with the success and failure marker,
\* "summary" with the summary marker
NoText == <<"", 0>>

\* status_update: important
important(text) == text[1] \in {"ok", "fail", "summary"}

\* No status_update call yet: the text of the call, the time since
\* last_edit_time, whether the edit was made, and whether none was made before
NoCall == [text |-> NoText, gap |-> 0, sent |-> FALSE, first |-> TRUE]

\* extract_media_info: the attributes it looks at, in the order of its checks
MediaChecks == <<"photo", "video", "document", "audio", "voice", "sticker">>

\* The kinds of media an event can carry (the attributes of a client message)
MediaTypes == {"photo", "video", "document", "audio", "voice", "sticker", "animation", "video_note"}

\* The file handles of the media object of a kind
FileId(kind) == <<"file_id", kind>>
FileUniqueId(kind) == <<"file_unique_id", kind>>

\* The descriptor with media_type, media_file_id and media_file_unique_id None
NoMedia == [media_type |-> "None", media_file_id |-> <<>>, media_file_unique_id |-> <<>>]

\* MessageProcessor.extract_media_info: the if / elif chain over the
\* attributes of the event (event is the set of attributes that are set)
RECURSIVE extract_from(_, _)
extract_from(event, k) ==
    IF k > Len(MediaChecks) THEN NoMedia
    ELSE IF MediaChecks[k] \in event
         THEN [media_type |-> MediaChecks[k],
               media_file_id |-> FileId(MediaChecks[k]),
               media_file_unique_id |-> FileUniqueId(MediaChecks[k])]
         ELSE extract_from(event, k + 1)

extract_media_info(event) == extract_from(event, 1)

\* No event normalized yet
NoEvent == [pc |-> "none", event |-> {}, info |-> NoMedia]

\* The callers of toggle_mirror, each with a session of its own
Callers == {1, 2}

\* No toggle_mirror call: read is the is_active that get_by_id returned, orig
\* the is_active the mirror had before the calls now in flight on it
NoToggle == [pc |-> "idle", mirror_id |-> 0, read |-> FALSE, orig |-> FALSE, result |-> "pending"]

\* No /copy_message run yet
NoBulk ==
    [phase |-> "none", n |-> 0, pc |-> <<>>, sem |-> GateSize,
     ok |-> 0, fail |-> 0, done |-> 0,
     now |-> 0, last_edit_time |-> 0, last_edit_text |-> NoText, last |-> NoCall]

IdlePass ==
    [pc |-> "idle", chat |-> 0, user |-> 0, title |-> "None",
     newUser |-> FALSE, newChat |-> FALSE, setTitle |-> "None",
     msg |-> [is_mirrored |-> FALSE, mirror_count |-> 0, rendered_image_path |-> NoPath],
     prepared |-> <<>>, renders |-> <<>>, markErrs |-> 0,
     result |-> "pending", targets |-> <<>>, sent |-> <<>>, deletedBefore |-> {},
     file |-> <<>>, before |-> <<>>, telegram_id |-> 0]

Init ==
    /\ users = {}
    /\ chats = {}
    /\ messages = {}
    /\ mirrors = {}
    /\ mirrorSeq = 0
    /\ render_images = TRUE
    /\ pass = [p \in Passes |-> IdlePass]
    /\ settings = StartSettings
    /\ seen = [handler |-> "none", chat |-> 0, call |-> "none"]
    /\ bulk = NoBulk
    /\ media = NoEvent
    /\ toggles = [c \in Callers |-> NoToggle]

\* ------------------------------------------------- the dispatch pass
\* What the session of pass p sees: the committed rows and its own pending rows.
SeesUser(p) == HasUser(users, pass[p].user) \/ pass[p].newUser
SeesChat(p) == HasChat(chats, pass[p].chat) \/ pass[p].newChat

\* handle_source_message is entered for an event the source handler receives;
\* get_session opens the session of the pass.
handle_source_message(p, chat, user, title) ==
    /\ \E cmd \in Commands : Route([chat |-> chat, user |-> user, cmd |-> cmd]) = "source"
    /\ pass[p].pc = "idle"
    /\ \A q \in Passes : q < p => pass[q].pc # "idle"
    /\ pass' = [pass EXCEPT ![p] =
                  [IdlePass EXCEPT !.pc = "ensure_user", !.chat = chat,
                                   !.user = user, !.title = title,
                                   !.telegram_id = TelegramId(p),
                                   !.deletedBefore = DeletedMirrors,
                                   !.before = <<users, chats, messages>>]]
    /\ UNCHANGED <<store, render_images, settings, seen, bulk, media, toggles>>

\* TelegramMessageHandler.handle_source_message for an event the client
\* delivers again: the chat and the protocol message id of a stored Message m
handle_redelivered_message(p, m, user) ==
    /\ \E cmd \in Commands : Route([chat |-> m.chat_id, user |-> user, cmd |-> cmd]) = "source"
    /\ pass[p].pc = "idle"
    /\ \A q \in Passes : q < p => pass[q].pc # "idle"
    /\ pass' = [pass EXCEPT ![p] =
                  [IdlePass EXCEPT !.pc = "ensure_user", !.chat = m.chat_id,
                                   !.user = user, !.title = "A",
                                   !.telegram_id = m.telegram_id,
                                   !.deletedBefore = DeletedMirrors,
                                   !.before = <<users, chats, messages>>]]
    /\ UNCHANGED <<store, render_images, settings, seen, bulk, media, toggles>>

\* MirrorHandler.ensure_user_exists: lookup, creation only if absent
ensure_user_exists(p) ==
    /\ pass[p].pc = "ensure_user"
    /\ pass' = [pass EXCEPT ![p].pc = "ensure_chat",
                            ![p].newUser = ~SeesUser(p)]
    /\ UNCHANGED <<store, render_images, settings, seen, bulk, media, toggles>>

\* MirrorHandler.ensure_chat_exists: creation if absent, else update_info
ensure_chat_exists(p) ==
    /\ pass[p].pc = "ensure_chat"
    /\ pass' = [pass EXCEPT ![p].pc = "create_message",
                            ![p].newChat = ~SeesChat(p),
                            ![p].setTitle = IF SeesChat(p) THEN pass[p].title ELSE "None"]
    /\ UNCHANGED <<store, render_images, settings, seen, bulk, media, toggles>>

\* MirrorHandler.create_message_record / MessageRepository.create: the new
\* Message takes the column defaults is_mirrored = False, mirror_count = 0
create_message_record(p) ==
    /\ pass[p].pc = "create_message"
    /\ pass' = [pass EXCEPT ![p].pc = "get_mirrors",
                            ![p].msg = IdlePass.msg]
    /\ UNCHANGED <<store, render_images, settings, seen, bulk, media, toggles>>

\* process_incoming_message: mirrors = get_by_source_chat(chat.id); if mirrors: ...
load_mirrors(p) ==
    /\ pass[p].pc = "get_mirrors"
    /\ LET found == get_by_source_chat(mirrors, pass[p].chat)
       IN pass' = [pass EXCEPT ![p].prepared = found,
                               ![p].pc = IF found # <<>> THEN "mirroring" ELSE "commit"]
    /\ UNCHANGED <<store, render_images, settings, seen, bulk, media, toggles>>

\* MirrorHandler.mirror_message_to_target for the next mirror of the loop of
\* handle_message_mirroring.  rendered says what the renderer did, stored says
\* whether mark_as_mirrored went through; an exception of it is caught and
\* logged by handle_message_mirroring.
RenderOutcome(mirror, setting, rendered) ==
    IF ~mirror.render_as_image THEN "not_asked"
    ELSE IF ~setting THEN "disabled"
    ELSE IF rendered THEN "image" ELSE "failed"

\* AfterMirror leaving the loop after its first mirror
AfterMirrorFirst(k, n) == "commit"

\* handle_message_mirroring: the loop goes on to the next mirror, and
\* process_incoming_message goes on to the commit after the last
AfterMirror(k, n) == IF k = n THEN "commit" ELSE "mirroring"

\* mirror_message_to_target with a failure of the mirror raised to the caller of
\* process_incoming_message
mirror_message_to_target_raises(p, rendered, stored) ==
    /\ pass[p].pc = "mirroring"
    /\ LET k == Len(pass[p].renders) + 1
           mirror == pass[p].prepared[k]
           outcome == RenderOutcome(mirror, render_images, rendered)
           rendered_image_path == IF outcome = "image" THEN RenderedPath(p) ELSE NoPath
       IN pass' = [pass EXCEPT
                     ![p].renders = Append(@, outcome),
                     ![p].file = IF outcome = "image"
                                 THEN RenderedImage(mirror.include_media,
                                                    mirror.include_replies)
                                 ELSE @,
                     ![p].msg = IF stored THEN mark_as_mirrored(@, rendered_image_path) ELSE @,
                     ![p].markErrs = IF stored THEN @ ELSE @ + 1,
                     ![p].result = IF outcome = "failed" \/ ~stored THEN "none" ELSE @,
                     ![p].pc = IF outcome = "failed" \/ ~stored THEN "done"
                               ELSE AfterMirror(k, Len(pass[p].prepared))]
    /\ UNCHANGED <<store, render_images, settings, seen, bulk, media, toggles>>

mirror_message_to_target(p, rendered, stored) ==
    /\ pass[p].pc = "mirroring"
    /\ LET k == Len(pass[p].renders) + 1
           mirror == pass[p].prepared[k]
           outcome == RenderOutcome(mirror, render_images, rendered)
           rendered_image_path == IF outcome = "image" THEN RenderedPath(p) ELSE NoPath
       IN pass' = [pass EXCEPT
                     ![p].renders = Append(@, outcome),
                     ![p].file = IF outcome = "image"
                                 THEN RenderedImage(mirror.include_media,
                                                    mirror.include_replies)
                                 ELSE @,
                     ![p].msg = IF stored THEN mark_as_mirrored(@, rendered_image_path) ELSE @,
                     ![p].markErrs = IF stored THEN @ ELSE @ + 1,
                     ![p].pc = AfterMirror(k, Len(pass[p].prepared))]
    /\ UNCHANGED <<store, render_images, settings, seen, bulk, media, toggles>>

\* The Message row of pass p as it is committed
MessageRow(p) ==
    [id |-> p, telegram_id |-> pass[p].telegram_id, chat_id |-> pass[p].chat,
     is_mirrored |-> pass[p].msg.is_mirrored,
     mirror_count |-> pass[p].msg.mirror_count,
     rendered_image_path |-> pass[p].msg.rendered_image_path]

\* ensure_user_exists / ensure_chat_exists: the rows a new User / Chat gets
NewUser(user_id) ==
    [id |-> user_id, is_admin |-> user_id \in settings.admin_user_ids,
     is_allowed |-> user_id \in settings.admin_user_ids
                       \/ user_id \in settings.allowed_user_ids]
NewChat(chat_id, title) ==
    [id |-> chat_id, title |-> title, is_source |-> chat_id \in settings.source_chat_ids,
     is_target |-> chat_id \in settings.target_chat_ids]

\* Conflict with no primary key on users.id and chats.id
ConflictIgnored(p) == FALSE

\* The primary key of a pending row was taken by a pass that committed first
Conflict(p) ==
    \/ pass[p].newUser /\ HasUser(users, pass[p].user)
    \/ pass[p].newChat /\ HasChat(chats, pass[p].chat)

\* AfterReturn looking at the mirrored state only
AfterReturnMirrored(result, is_mirrored) ==
    IF is_mirrored THEN "get_targets" ELSE "done"

\* After process_incoming_message returned: if db_message and db_message.is_mirrored
AfterReturn(result, is_mirrored) ==
    IF result = "message" /\ is_mirrored THEN "get_targets" ELSE "done"

\* process_incoming_message: session.commit() and return message
commit(p) ==
    /\ pass[p].pc = "commit"
    /\ ~Conflict(p)
    /\ users' = IF pass[p].newUser THEN users \cup {NewUser(pass[p].user)} ELSE users
    /\ chats' = IF pass[p].newChat
                THEN chats \cup {NewChat(pass[p].chat, pass[p].title)}
                ELSE update_info(chats, pass[p].chat, pass[p].setTitle)
    /\ messages' = messages \cup {MessageRow(p)}
    /\ pass' = [pass EXCEPT ![p].result = "message",
                            ![p].pc = AfterReturn("message", pass[p].msg.is_mirrored)]
    /\ UNCHANGED <<mirrors, mirrorSeq, render_images, settings, seen, bulk, media, toggles>>

\* rollback that leaves the flushed Message row in the store
rollback_partial(p) ==
    /\ pass[p].pc \in {"ensure_user", "ensure_chat", "create_message", "get_mirrors", "commit"}
    /\ pass' = [pass EXCEPT ![p].result = "none",
                            ![p].newUser = FALSE, ![p].newChat = FALSE,
                            ![p].setTitle = "None",
                            ![p].pc = AfterReturn("none", pass[p].msg.is_mirrored)]
    /\ messages' = messages \cup {MessageRow(p)}
    /\ UNCHANGED <<users, chats, mirrors, mirrorSeq, render_images, settings, seen, bulk, media, toggles>>

\* rollback after which the pass starts over
rollback_retry(p) ==
    /\ pass[p].pc \in {"ensure_user", "ensure_chat", "create_message", "get_mirrors", "commit"}
    /\ pass' = [pass EXCEPT ![p].pc = "ensure_user",
                            ![p].newUser = FALSE, ![p].newChat = FALSE,
                            ![p].setTitle = "None",
                            ![p].msg = IdlePass.msg,
                            ![p].prepared = <<>>, ![p].renders = <<>>, ![p].markErrs = 0]
    /\ UNCHANGED <<store, render_images, settings, seen, bulk, media, toggles>>

\* process_incoming_message: a store call of the pass raises (the store is
\* unavailable, or the commit meets a primary-key conflict); except Exception:
\* session.rollback(), return None
rollback(p) ==
    /\ pass[p].pc \in {"ensure_user", "ensure_chat", "create_message", "get_mirrors", "commit"}
    /\ pass' = [pass EXCEPT ![p].result = "none",
                            ![p].newUser = FALSE, ![p].newChat = FALSE,
                            ![p].setTitle = "None",
                            ![p].pc = AfterReturn("none", pass[p].msg.is_mirrored)]
    /\ UNCHANGED <<store, render_images, settings, seen, bulk, media, toggles>>

\* handle_source_message: mirrors = get_mirrors_for_source_chat(message.chat.id)
load_targets(p) ==
    /\ pass[p].pc = "get_targets"
    /\ LET found == get_by_source_chat(mirrors, pass[p].chat)
       IN pass' = [pass EXCEPT ![p].targets = found,
                               ![p].pc = IF found # <<>> THEN "sending" ELSE "done"]
    /\ UNCHANGED <<store, render_images, settings, seen, bulk, media, toggles>>

\* Delivery choosing by the stored path alone, without mirror.render_as_image
DeliveryByPath(db_message, mirror, delivered) ==
    IF db_message.rendered_image_path # NoPath
    THEN [call |-> "send_photo", mirror |-> mirror.id, chat_id |-> mirror.target_chat_id,
          photo |-> db_message.rendered_image_path, from_chat_id |-> 0, message_id |-> 0,
          reply_to_message_id |-> mirror.target_topic_id, delivered |-> delivered]
    ELSE [call |-> "copy_message", mirror |-> mirror.id, chat_id |-> mirror.target_chat_id,
          photo |-> NoPath, from_chat_id |-> db_message.chat_id,
          message_id |-> db_message.telegram_id,
          reply_to_message_id |-> mirror.target_topic_id, delivered |-> delivered]

\* TelegramMessageHandler.send_mirrored_message: the call made to the client
Delivery(db_message, mirror, delivered) ==
    IF db_message.rendered_image_path # NoPath /\ mirror.render_as_image
    THEN [call |-> "send_photo", mirror |-> mirror.id, chat_id |-> mirror.target_chat_id,
          photo |-> db_message.rendered_image_path, from_chat_id |-> 0, message_id |-> 0,
          reply_to_message_id |-> mirror.target_topic_id, delivered |-> delivered]
    ELSE [call |-> "copy_message", mirror |-> mirror.id, chat_id |-> mirror.target_chat_id,
          photo |-> NoPath, from_chat_id |-> db_message.chat_id,
          message_id |-> db_message.telegram_id,
          reply_to_message_id |-> mirror.target_topic_id, delivered |-> delivered]

\* AfterSend with the loop left at the first client call that raises
AfterSendAbort(k, n, delivered) == IF k = n \/ ~delivered THEN "done" ELSE "sending"

\* send_mirrored_message for the next mirror of the loop of handle_source_message;
\* an exception of the client call (delivered = FALSE) is caught and logged
AfterSend(k, n, delivered) == IF k = n THEN "done" ELSE "sending"

send_mirrored_message(p, delivered) ==
    /\ pass[p].pc = "sending"
    /\ LET k == Len(pass[p].sent) + 1
           mirror == pass[p].targets[k]
       IN pass' = [pass EXCEPT
                     ![p].sent = Append(@, Delivery(MessageRow(p), mirror, delivered)),
                     ![p].pc = AfterSend(k, Len(pass[p].targets), delivered)]
    /\ UNCHANGED <<store, render_images, settings, seen, bulk, media, toggles>>

\* handle_source_message returns: get_session closes the session and the
\* objects of the pass go out of scope
close(p) ==
    /\ pass[p].pc = "done"
    /\ pass' = [pass EXCEPT ![p] = [IdlePass EXCEPT !.pc = "closed"]]
    /\ UNCHANGED <<store, render_images, settings, seen, bulk, media, toggles>>

\* handle_source_message: the reload of the mirrors raises; except Exception
\* logs it, get_session rolls back (nothing is pending) and nothing is sent
load_targets_failed(p) ==
    /\ pass[p].pc = "get_targets"
    /\ pass' = [pass EXCEPT ![p].pc = "done"]
    /\ UNCHANGED <<store, render_images, settings, seen, bulk, media, toggles>>

\* ------------------------------------ administrative operations
\* stored = FALSE in the three operations: a store call of the operation raises
\* (except Exception: session.rollback(), return None / False).

\* create_mirror_result without the lookup of the target chat
create_mirror_result_source_only(cs, source_chat_id, target_chat_id, stored) ==
    IF ~stored THEN "none"
    ELSE IF ~HasChat(cs, source_chat_id) THEN "none"
    ELSE "mirror"

\* MirrorService.create_mirror_configuration: what it returns
create_mirror_result(cs, source_chat_id, target_chat_id, stored) ==
    IF ~stored THEN "none"
    ELSE IF ~HasChat(cs, source_chat_id) THEN "none"
    ELSE IF ~HasChat(cs, target_chat_id) THEN "none"
    ELSE "mirror"

\* MirrorService.create_mirror_configuration: the Mirror rows it leaves
create_mirror_after(ms, cs, id, serial, source_chat_id, target_chat_id, target_topic_id, render_as_image, include_media, include_replies, stored) ==
    IF create_mirror_result(cs, source_chat_id, target_chat_id, stored) = "mirror"
    THEN ms \cup {NewMirror(id, serial, source_chat_id, target_chat_id, target_topic_id,
                            render_as_image, include_media, include_replies)}
    ELSE ms

\* MirrorService.create_mirror_configuration: what it does to the store
create_mirror_rows(source_chat_id, target_chat_id, target_topic_id, render_as_image, include_media, include_replies, stored) ==
    /\ mirrorSeq < MaxMirrors
    /\ \E id \in NewMirrorIds(mirrors, mirrorSeq) :
          mirrors' = create_mirror_after(mirrors, chats, id, mirrorSeq + 1, source_chat_id,
                                        target_chat_id, target_topic_id, render_as_image,
                                        include_media, include_replies, stored)
    /\ mirrorSeq' = IF mirrors' # mirrors THEN mirrorSeq + 1 ELSE mirrorSeq

create_mirror_configuration(source_chat_id, target_chat_id, target_topic_id, render_as_image, include_media, include_replies, stored) ==
    /\ create_mirror_rows(source_chat_id, target_chat_id, target_topic_id,
                          render_as_image, include_media, include_replies, stored)
    /\ UNCHANGED <<users, chats, messages, render_images, settings, pass, seen, bulk, media, toggles>>

\* MirrorService.toggle_mirror: what it returns, and the rows it leaves
toggle_mirror_result(ms, mirror_id, stored) ==
    IF stored /\ HasMirror(ms, mirror_id) THEN "mirror" ELSE "none"

toggle_mirror_rows(ms, mirror_id, stored) ==
    IF toggle_mirror_result(ms, mirror_id, stored) = "mirror"
    THEN toggle_active(ms, mirror_id) ELSE ms

toggle_mirror(mirror_id, stored) ==
    /\ mirrors' = toggle_mirror_rows(mirrors, mirror_id, stored)
    /\ UNCHANGED <<users, chats, messages, mirrorSeq, render_images, settings, pass, seen, bulk, media, toggles>>

\* MirrorService.delete_mirror: success is rowcount > 0
delete_mirror_result(ms, mirror_id, stored) ==
    stored /\ Cardinality(ms \ delete_mirror(ms, mirror_id)) > 0

delete_mirror_rows(ms, mirror_id, stored) ==
    IF delete_mirror_result(ms, mirror_id, stored) THEN delete_mirror(ms, mirror_id) ELSE ms

delete_mirror_configuration(mirror_id, stored) ==
    /\ mirrors' = delete_mirror_rows(mirrors, mirror_id, stored)
    /\ UNCHANGED <<users, chats, messages, mirrorSeq, render_images, settings, pass, seen, bulk, media, toggles>>

\* UserRepository.update_permissions: only the flags that are not None are
\* written ("None", "True", "False" stand for the optional bool)
update_permissions(us, user_id, is_admin, is_allowed) ==
    {IF u.id = user_id
     THEN [u EXCEPT !.is_admin = IF is_admin = "None" THEN @ ELSE is_admin = "True",
                    !.is_allowed = IF is_allowed = "None" THEN @ ELSE is_allowed = "True"]
     ELSE u : u \in us}

\* UserRepository.update_permissions called in a session that commits
update_user_permissions(user_id, is_admin, is_allowed) ==
    /\ users' = update_permissions(users, user_id, is_admin, is_allowed)
    /\ UNCHANGED <<chats, messages, mirrors, mirrorSeq, render_images, settings, pass,
                   seen, bulk, media, toggles>>

\* The program is started again with other id lists in its environment
reconfigure(lists) ==
    /\ \A q \in Passes : pass[q].pc \in {"idle", "closed"}
    /\ settings' = lists
    /\ UNCHANGED <<store, render_images, pass, seen, bulk, media, toggles>>

\* SettingsManager.toggle_render_images
toggle_render_images ==
    /\ render_images' = ~render_images
    /\ UNCHANGED <<store, settings, pass, seen, bulk, media, toggles>>

\* ------------------------------------ the handlers of the event stream
\* The admin handler receives a command seen in chat from some sender
AdminReceives(chat, cmd) ==
    \E u \in UserIds \cup {0} : Route([chat |-> chat, user |-> u, cmd |-> cmd]) = "admin"

\* handle_add_mirror_command: /add_mirror <source> <target> [topic]; accessible
\* says whether client.get_chat reaches both chats; the policy flags keep their
\* defaults; the outcome is answered with send_message
handle_add_mirror_command(chat, s, t, topic, accessible, stored) ==
    /\ AdminReceives(chat, "add_mirror")
    /\ IF accessible
       THEN create_mirror_rows(s, t, topic, TRUE, TRUE, TRUE, stored)
       ELSE UNCHANGED <<mirrors, mirrorSeq>>
    /\ seen' = [handler |-> "admin", chat |-> chat, call |-> "send_message"]
    /\ UNCHANGED <<users, chats, messages, render_images, settings, pass, bulk, media, toggles>>

\* handle_remove_mirror_command: /remove_mirror <mirror_id>
handle_remove_mirror_command(chat, mirror_id, stored) ==
    /\ AdminReceives(chat, "remove_mirror")
    /\ mirrors' = delete_mirror_rows(mirrors, mirror_id, stored)
    /\ seen' = [handler |-> "admin", chat |-> chat, call |-> "send_message"]
    /\ UNCHANGED <<users, chats, messages, mirrorSeq, render_images, settings, pass, bulk, media, toggles>>

\* _save_one_message: the client call that re-sends a source message of a kind
SaveOneMessage(kind) ==
    CASE kind = "photo" -> "send_photo"
      [] kind = "text" -> "send_message"
      [] OTHER -> "edit_message_text"

\* handle_copy_message_command: /copy_message for one message id
handle_copy_message_command(chat, kind) ==
    /\ AdminReceives(chat, "copy_message")
    /\ seen' = [handler |-> "admin", chat |-> chat, call |-> SaveOneMessage(kind)]
    /\ UNCHANGED <<store, render_images, settings, pass, bulk, media, toggles>>

\* log_mirror_chat_message: the event is written to the log and nothing else
log_mirror_chat_message(chat) ==
    /\ \E u \in UserIds \cup {0}, cmd \in Commands :
          Route([chat |-> chat, user |-> u, cmd |-> cmd]) = "log"
    /\ seen' = [handler |-> "log", chat |-> chat, call |-> "none"]
    /\ UNCHANGED <<store, render_images, settings, pass, bulk, media, toggles>>

\* ------------------------------------------------------------- Next
NoPassInFlight == \A q \in Passes : pass[q].pc \in {"idle", "closed"}

\* The arguments create_mirror_configuration is called with:
\* <<target_topic_id, render_as_image, include_media, include_replies>>
MirrorArgs == {<<0, TRUE, TRUE, FALSE>>, <<7, FALSE, FALSE, TRUE>>}

\* The steps of a dispatch pass after its start
PassStep ==
    \/ \E p \in Passes : ensure_user_exists(p)
    \/ \E p \in Passes : ensure_chat_exists(p)
    \/ \E p \in Passes : create_message_record(p)
    \/ \E p \in Passes : load_mirrors(p)
    \/ \E p \in Passes, rendered \in BOOLEAN, stored \in BOOLEAN :
          mirror_message_to_target(p, rendered, stored)
    \/ \E p \in Passes : commit(p)
    \/ \E p \in Passes : rollback(p)
    \/ \E p \in Passes : load_targets(p)
    \/ \E p \in Passes : load_targets_failed(p)
    \/ \E p \in Passes, delivered \in BOOLEAN : send_mirrored_message(p, delivered)
    \/ \E p \in Passes : close(p)

\* The dispatch and configuration engine: source events are dispatched one
\* after the other, and the operations of MirrorService and the render setting
\* are used between any two steps of a pass.
Next ==
    \/ \E p \in Passes, chat \in ChatIds, user \in UserIds :
          NoPassInFlight /\ handle_source_message(p, chat, user, "A")
    \/ PassStep
    \/ \E s \in ChatIds, t \in ChatIds, a \in MirrorArgs :
          create_mirror_configuration(s, t, a[1], a[2], a[3], a[4], TRUE)
    \/ \E s \in ChatIds, t \in ChatIds :
          create_mirror_configuration(s, t, 0, TRUE, TRUE, TRUE, FALSE)
    \/ \E id \in 1 .. (MaxMirrors + 1), stored \in BOOLEAN : toggle_mirror(id, stored)
    \/ \E id \in 1 .. (MaxMirrors + 1), stored \in BOOLEAN :
          delete_mirror_configuration(id, stored)
    \/ toggle_render_images

Spec == Init /\ [][Next]_vars

\* The arguments /add_mirror is handled with: <<source, target, accessible, stored>>
AddMirrorArgs == {<<1, 2, TRUE, TRUE>>, <<2, 2, TRUE, TRUE>>, <<1, 3, TRUE, TRUE>>,
                  <<1, 2, FALSE, TRUE>>, <<1, 2, TRUE, FALSE>>}

\* The event stream of the client, one event handled after the other: every
\* event goes to the handler setup_handlers routes it to, and mirrors are
\* configured with the admin commands.
NextHandlers ==
    \/ \E p \in Passes, chat \in ChatIds, user \in UserIds :
          NoPassInFlight /\ handle_source_message(p, chat, user, "A")
    \/ PassStep
    \/ \E chat \in ChatIds, a \in AddMirrorArgs :
          NoPassInFlight /\ handle_add_mirror_command(chat, a[1], a[2], 0, a[3], a[4])
    \/ \E chat \in ChatIds, id \in 1 .. (MaxMirrors + 1) :
          NoPassInFlight /\ handle_remove_mirror_command(chat, id, TRUE)
    \/ \E chat \in ChatIds, kind \in MediaKinds :
          NoPassInFlight /\ handle_copy_message_command(chat, kind)
    \/ \E chat \in ChatIds : NoPassInFlight /\ log_mirror_chat_message(chat)

SpecHandlers == Init /\ [][NextHandlers]_vars

\* The id lists the program is started again with
OtherSettings ==
    [source_chat_ids |-> {2}, target_chat_ids |-> {3},
     admin_user_ids |-> {2}, allowed_user_ids |-> {1, 2}]

OptionalBools == {"None", "True", "False"}
Titles == {"None", "A", "B"}     \* chat.title of an event ("None" = absent)

\* Resolution of users and chats: the passes of several events overlap, the
\* events carry any title, the id lists change between runs of the program and
\* permissions are updated through the repository.  No mirror is configured.
NextResolve ==
    \/ \E p \in Passes, chat \in ChatIds, user \in UserIds, title \in Titles :
          handle_source_message(p, chat, user, title)
    \/ \E p \in Passes : ensure_user_exists(p)
    \/ \E p \in Passes : ensure_chat_exists(p)
    \/ \E p \in Passes : create_message_record(p)
    \/ \E p \in Passes : load_mirrors(p)
    \/ \E p \in Passes : commit(p)
    \/ \E p \in Passes : rollback(p)
    \/ \E p \in Passes : close(p)
    \/ \E lists \in {StartSettings, OtherSettings} : reconfigure(lists)
    \/ \E user \in {u.id : u \in users}, is_admin \in OptionalBools,
          is_allowed \in OptionalBools :
          update_user_permissions(user, is_admin, is_allowed)

SpecResolve == Init /\ [][NextResolve]_vars

\* handle_copy_message_command.status_update: the status message is edited when
\* the text is important, the throttle interval has passed or the text differs
\* from the last one; last_edit_time and last_edit_text are written only when
\* edit_message_text did not raise (edited)
status_update(b, text, edited) ==
    LET gap == b.now - b.last_edit_time
        first == b.last_edit_text = NoText
    IN IF (important(text) \/ gap >= Throttle \/ text # b.last_edit_text) /\ edited
       THEN [b EXCEPT !.last_edit_time = b.now, !.last_edit_text = text,
                      !.last = [text |-> text, gap |-> gap, sent |-> TRUE, first |-> first]]
       ELSE [b EXCEPT !.last = [text |-> text, gap |-> gap, sent |-> FALSE, first |-> first]]

\* A gate that never makes a worker wait
locked_never(sem) == FALSE

\* asyncio.Semaphore.locked: no permit left
locked(sem) == sem = 0

\* Workers inside "async with sem"
InFlight(b) == {w \in 1 .. b.n : b.pc[w] = "copying"}

\* handle_copy_message_command: the status message is sent and one worker task
\* per message id is created; t is the reading of the loop clock
copy_message_run(n, t) ==
    /\ bulk.phase \in {"none", "finished"}
    /\ bulk' = [NoBulk EXCEPT !.phase = "running", !.n = n,
                              !.pc = [w \in 1 .. n |-> "queued"], !.now = t]
    /\ UNCHANGED <<store, render_images, settings, pass, seen, media, toggles>>

\* worker: the task enters "async with sem" (tasks start in the order of their
\* creation and the semaphore wakes its waiters in that order) and reports the
\* start of its item
worker_start(w, edited) ==
    /\ bulk.phase = "running" /\ w \in 1 .. bulk.n
    /\ bulk.pc[w] = "queued"
    /\ \A v \in 1 .. w - 1 : bulk.pc[v] # "queued"
    /\ ~locked(bulk.sem)
    /\ bulk' = status_update([bulk EXCEPT !.pc[w] = "copying", !.sem = @ - 1],
                             <<"start", w>>, edited)
    /\ UNCHANGED <<store, render_images, settings, pass, seen, media, toggles>>

\* count leaving a failed item out of fail
count_success_only(b, success) ==
    [b EXCEPT !.ok = IF success THEN @ + 1 ELSE @, !.done = @ + 1]

\* worker: ok += 1 or fail += 1, and done += 1 in the finally clause, with no
\* await in between
count(b, success) ==
    [b EXCEPT !.ok = IF success THEN @ + 1 ELSE @,
              !.fail = IF success THEN @ ELSE @ + 1,
              !.done = @ + 1]

\* worker: _save_one_message reports its first line and its result (an
\* exception counts as a failure), ok or fail and done are counted, the
\* progress line is reported and the gate is released on the way out
worker_finish(w, success, e1, e2, e3) ==
    /\ bulk.phase = "running" /\ w \in 1 .. bulk.n
    /\ bulk.pc[w] = "copying"
    /\ LET b1 == status_update(bulk, <<"check", 0>>, e1)
           b2 == status_update(b1, <<IF success THEN "ok" ELSE "fail", w>>, e2)
           b3 == count(b2, success)
           b4 == status_update(b3, <<"progress", b3.done>>, e3)
       IN bulk' = [b4 EXCEPT !.pc[w] = "finished", !.sem = @ + 1]
    /\ UNCHANGED <<store, render_images, settings, pass, seen, media, toggles>>

\* handle_copy_message_command: after gather the summary is reported
copy_summary(edited) ==
    /\ bulk.phase = "running"
    /\ \A w \in 1 .. bulk.n : bulk.pc[w] = "finished"
    /\ bulk' = [status_update(bulk, <<"summary", 0>>, edited) EXCEPT !.phase = "finished"]
    /\ UNCHANGED <<store, render_images, settings, pass, seen, media, toggles>>

\* The loop clock advances by one second while a run is going on
Tick ==
    /\ bulk.phase = "running"
    /\ bulk.now < MaxClock
    /\ bulk' = [bulk EXCEPT !.now = @ + 1]
    /\ UNCHANGED <<store, render_images, settings, pass, seen, media, toggles>>

\* The steps of the workers of a run
WorkerStep ==
    \/ \E w \in 1 .. MaxItems, edited \in BOOLEAN : worker_start(w, edited)
    \/ \E w \in 1 .. MaxItems, success \in BOOLEAN, e1 \in BOOLEAN, e2 \in BOOLEAN, e3 \in BOOLEAN :
          worker_finish(w, success, e1, e2, e3)
    \/ \E edited \in BOOLEAN : copy_summary(edited)

\* One /copy_message run after another, of up to MaxItems message ids, each
\* within one second of the loop clock
NextGate ==
    \/ \E n \in 1 .. MaxItems : copy_message_run(n, Throttle)
    \/ WorkerStep

SpecGate == Init /\ [][NextGate]_vars

\* One /copy_message run after another, of up to MaxCountedItems message ids
NextCount ==
    \/ \E n \in 1 .. MaxCountedItems : copy_message_run(n, Throttle)
    \/ WorkerStep

\* Every await of a worker returns or raises: a run that can take a step takes one
SpecCount == Init /\ [][NextCount]_vars /\ WF_vars(WorkerStep)

\* One /copy_message run after another, of up to MaxTimedItems message ids,
\* while the loop clock advances
NextThrottle ==
    \/ \E n \in 1 .. MaxTimedItems, t \in {0, Throttle} : copy_message_run(n, t)
    \/ WorkerStep
    \/ Tick

SpecThrottle == Init /\ [][NextThrottle]_vars

\* The normalizer is given an event with any set of media attributes
InitMedia ==
    /\ users = {} /\ chats = {} /\ messages = {} /\ mirrors = {} /\ mirrorSeq = 0
    /\ render_images = TRUE /\ settings = StartSettings
    /\ pass = [p \in Passes |-> IdlePass]
    /\ seen = [chat |-> 0, handler |-> "none", call |-> "none"]
    /\ bulk = NoBulk
    /\ toggles = [c \in Callers |-> NoToggle]
    /\ media \in {[NoEvent EXCEPT !.pc = "event", !.event = e] : e \in SUBSET MediaTypes}

\* create_message_record: media_info = extract_media_info(pyrogram_message)
normalize_media ==
    /\ media.pc = "event"
    /\ media' = [media EXCEPT !.pc = "extracted", !.info = extract_media_info(media.event)]
    /\ UNCHANGED <<store, render_images, settings, pass, seen, bulk, toggles>>

SpecMedia == InitMedia /\ [][normalize_media]_vars

\* Dispatch of events that may be delivered more than once
NextRedeliver ==
    \/ \E p \in Passes, chat \in ChatIds, user \in UserIds :
          NoPassInFlight /\ handle_source_message(p, chat, user, "A")
    \/ \E p \in Passes, m \in messages, user \in UserIds :
          NoPassInFlight /\ handle_redelivered_message(p, m, user)
    \/ PassStep
    \/ \E s \in ChatIds, t \in ChatIds, a \in MirrorArgs :
          create_mirror_configuration(s, t, a[1], a[2], a[3], a[4], TRUE)

SpecRedeliver == Init /\ [][NextRedeliver]_vars

\* Every call of a pass returns or raises: a pass that can take a step takes one
SpecLive == Init /\ [][NextRedeliver]_vars /\ WF_vars(PassStep)

\* MirrorRepository.toggle_active: mirror = get_by_id(mirror_id), in the
\* session of caller c; a mirror that is not found ends the call with None
toggle_active_read(c, mirror_id) ==
    /\ toggles[c].pc = "idle"
    /\ toggles' =
          IF ~HasMirror(mirrors, mirror_id)
          THEN [toggles EXCEPT ![c] = [NoToggle EXCEPT !.pc = "done", !.mirror_id = mirror_id,
                                                       !.result = "none"]]
          ELSE LET row == MirrorRow(mirrors, mirror_id)
                   others == {d \in Callers \ {c} : toggles[d].mirror_id = mirror_id
                                                      /\ toggles[d].result # "none"
                                                      /\ toggles[d].pc \in {"read", "done"}}
               IN [toggles EXCEPT ![c] =
                     [NoToggle EXCEPT !.pc = "read", !.mirror_id = mirror_id,
                                      !.read = row.is_active,
                                      !.orig = IF others = {} THEN row.is_active
                                               ELSE toggles[CHOOSE d \in others : TRUE].orig]]
    /\ UNCHANGED <<store, render_images, settings, pass, seen, bulk, media>>

\* The UPDATE of toggle_active writing the value computed from the row read
toggle_active_write(ms, mirror_id, read) ==
    {IF m.id = mirror_id THEN [m EXCEPT !.is_active = ~read] ELSE m : m \in ms}

\* MirrorRepository.toggle_active: update(Mirror).values(is_active=not
\* mirror.is_active), get_by_id again, and MirrorService.toggle_mirror: commit
\* and return the mirror; a store fault rolls back and returns None
toggle_active_update(c, stored) ==
    /\ toggles[c].pc = "read"
    /\ mirrors' = IF stored
                  THEN toggle_active_write(mirrors, toggles[c].mirror_id, toggles[c].read)
                  ELSE mirrors
    /\ toggles' = [toggles EXCEPT ![c].pc = "done",
                                  ![c].result = IF stored /\ HasMirror(mirrors, toggles[c].mirror_id)
                                                THEN "mirror" ELSE "none"]
    /\ UNCHANGED <<users, chats, messages, mirrorSeq, render_images, settings, pass, seen, bulk, media>>

\* The caller of toggle_mirror has its result
toggle_mirror_return(c) ==
    /\ toggles[c].pc = "done"
    /\ toggles' = [toggles EXCEPT ![c] = NoToggle]
    /\ UNCHANGED <<store, render_images, settings, pass, seen, bulk, media>>

\* toggle_mirror calls of two callers, step by step, on mirrors created for
\* the chats that dispatch passes have stored before
NextToggle ==
    \/ \E p \in Passes, chat \in ChatIds, user \in UserIds :
          /\ NoPassInFlight /\ mirrors = {}
          /\ handle_source_message(p, chat, user, "A")
    \/ \E p \in Passes : ensure_user_exists(p)
    \/ \E p \in Passes : ensure_chat_exists(p)
    \/ \E p \in Passes : create_message_record(p)
    \/ \E p \in Passes : load_mirrors(p)
    \/ \E p \in Passes : commit(p)
    \/ \E p \in Passes : close(p)
    \/ \E s \in ChatIds, t \in ChatIds :
          NoPassInFlight /\ create_mirror_configuration(s, t, 0, FALSE, TRUE, TRUE, TRUE)
    \/ \E c \in Callers, mirror_id \in 1 .. MaxMirrors :
          NoPassInFlight /\ mirrors # {} /\ toggle_active_read(c, mirror_id)
    \/ \E c \in Callers, stored \in BOOLEAN : toggle_active_update(c, stored)
    \/ \E c \in Callers : toggle_mirror_return(c)

SpecToggle == Init /\ [][NextToggle]_vars

\* The arguments of mirrors that all render, with different flags:
\* <<target_topic_id, render_as_image, include_media, include_replies>>
RenderArgs == {<<0, TRUE, TRUE, FALSE>>, <<0, TRUE, FALSE, TRUE>>}

\* Dispatch to mirrors that render as image
NextRender ==
    \/ \E p \in Passes, chat \in ChatIds, user \in UserIds :
          NoPassInFlight /\ handle_source_message(p, chat, user, "A")
    \/ PassStep
    \/ \E s \in ChatIds, t \in ChatIds, a \in RenderArgs :
          create_mirror_configuration(s, t, a[1], a[2], a[3], a[4], TRUE)

SpecRender == Init /\ [][NextRender]_vars

\* ------------------------------------------------------------- properties
\* The pass has returned from process_incoming_message with a committed message
Committed(p) ==
    pass[p].pc \in {"get_targets", "sending", "done"} /\ pass[p].result = "message"

\* Mirror k of the send loop of pass p, and what the pass rendered for it
RenderedFor(p, mirror_id, outcome) ==
    \E j \in 1 .. Len(pass[p].renders) :
        pass[p].prepared[j].id = mirror_id /\ pass[p].renders[j] = outcome

NoImageInPass(p) ==
    \A j \in 1 .. Len(pass[p].renders) : pass[p].renders[j] \in {"not_asked", "disabled"}

TargetOnlyChatIds == TargetChatIds \ SourceChatIds

C2_FanOutIsolation ==
    \A p \in Passes :
        /\ pass[p].pc \in {"commit", "get_targets", "sending"} \/ Committed(p)
              => Len(pass[p].renders) = Len(pass[p].prepared)
        /\ Committed(p) /\ pass[p].prepared # <<>> /\ pass[p].markErrs = 0
              => pass[p].msg.is_mirrored
        /\ pass[p].pc = "sending" => Len(pass[p].sent) < Len(pass[p].targets)
        /\ pass[p].pc = "done" =>
              /\ Len(pass[p].sent) = Len(pass[p].targets)
              /\ \A k \in 1 .. Len(pass[p].targets) :
                    pass[p].sent[k].mirror = pass[p].targets[k].id

\* A finished pass over two mirrors: the render for the first failed and the
\* client call for the first raised, the second was still attempted
C2_Witness ==
    \E p \in Passes :
        /\ pass[p].pc = "done" /\ Len(pass[p].targets) = 2 /\ Len(pass[p].sent) = 2
        /\ pass[p].renders[1] = "failed"
        /\ ~pass[p].sent[1].delivered
        /\ pass[p].sent[2].mirror = pass[p].targets[2].id
        /\ pass[p].msg.is_mirrored

\* C3 as stated: a mirror with render_as_image whose render succeeded in the
\* pass (no store fault) is delivered with send_photo of the rendered path, and
\* the message records that path, whatever the other mirrors of the pass are.
C3_RenderedIsSentAsPhoto ==
    \A p \in Passes : \A k \in 1 .. Len(pass[p].sent) :
        LET mirror == pass[p].targets[k]
        IN mirror.render_as_image /\ RenderedFor(p, mirror.id, "image")
              /\ pass[p].markErrs = 0
              => /\ pass[p].sent[k].call = "send_photo"
                 /\ pass[p].sent[k].photo = RenderedPath(p)
                 /\ pass[p].msg.rendered_image_path = RenderedPath(p)

\* C4 as stated: a mirror with render_as_image whose render failed in the pass
\* (no store fault) is delivered with copy_message, and the pass is mirrored.
C4_FailedRenderIsCopied ==
    \A p \in Passes : \A k \in 1 .. Len(pass[p].sent) :
        LET mirror == pass[p].targets[k]
        IN mirror.render_as_image /\ RenderedFor(p, mirror.id, "failed")
              /\ pass[p].markErrs = 0
              => /\ pass[p].sent[k].call = "copy_message"
                 /\ pass[p].msg.is_mirrored

\* C5: a mirror with render_as_image = FALSE, and any mirror of a pass in which
\* no image was rendered because the render setting was off, gets one
\* copy_message(chat_id = target chat, from_chat_id = chat of the message,
\* message_id = protocol id of the message, reply_to_message_id = topic of the
\* mirror); with that one mirror and no store fault the pass ends with
\* mirror_count = 1 and is_mirrored = TRUE.
C5_CopyDelivery ==
    \A p \in Passes :
        /\ Len(pass[p].sent) <= Len(pass[p].targets)
        /\ \A k \in 1 .. Len(pass[p].sent) :
              LET mirror == pass[p].targets[k]
                  d == pass[p].sent[k]
              IN ~mirror.render_as_image \/ NoImageInPass(p)
                    => /\ d.call = "copy_message"
                       /\ d.mirror = mirror.id
                       /\ d.chat_id = mirror.target_chat_id
                       /\ d.from_chat_id = pass[p].chat
                       /\ d.message_id = TelegramId(p)
                       /\ d.reply_to_message_id = mirror.target_topic_id
        /\ Committed(p) /\ Len(pass[p].prepared) = 1 /\ pass[p].markErrs = 0
              /\ (~pass[p].prepared[1].render_as_image \/ NoImageInPass(p))
              => pass[p].msg.mirror_count = 1 /\ pass[p].msg.is_mirrored

\* A mirror without render_as_image got its copy into topic 7 in a pass that
\* rendered an image for another mirror
C5_Witness ==
    \E p \in Passes : \E k \in 1 .. Len(pass[p].sent) :
        /\ ~pass[p].targets[k].render_as_image
        /\ pass[p].sent[k].call = "copy_message"
        /\ pass[p].sent[k].reply_to_message_id = 7
        /\ ~NoImageInPass(p)

C7_Eligibility ==
    \A p \in Passes :
        /\ \A k \in 1 .. Len(pass[p].prepared) :
              /\ pass[p].prepared[k].source_chat_id = pass[p].chat
              /\ pass[p].prepared[k].is_active
        /\ \A k \in 1 .. Len(pass[p].sent) :
              /\ pass[p].targets[k].source_chat_id = pass[p].chat
              /\ pass[p].targets[k].is_active
              /\ pass[p].sent[k].mirror = pass[p].targets[k].id
              /\ pass[p].sent[k].chat_id = pass[p].targets[k].target_chat_id
        /\ Committed(p) /\ pass[p].prepared = <<>>
              => /\ \E m \in messages :
                       m.id = p /\ m.chat_id = pass[p].chat
                       /\ ~m.is_mirrored /\ m.mirror_count = 0
                 /\ pass[p].pc = "done"
                 /\ pass[p].targets = <<>> /\ pass[p].sent = <<>>

\* A pass delivered to a mirror of its chat while another mirror of the same
\* chat, switched off, got nothing
C7_Witness ==
    \E p \in Passes :
        /\ pass[p].pc = "done" /\ pass[p].sent # <<>>
        /\ \E m \in mirrors :
              /\ m.source_chat_id = pass[p].chat /\ ~m.is_active
              /\ \A k \in 1 .. Len(pass[p].sent) : pass[p].sent[k].mirror # m.id

\* C8: in every reachable store, create_mirror with a source or target chat
\* that has no Chat row returns none and leaves the mirrors as they are; with
\* both rows present it returns a mirror and adds exactly one row, active, with
\* the arguments given, also when a mirror with the same source and target
\* is already there.
C8_CreateMirror ==
    \A s \in ChatIds, t \in ChatIds, a \in MirrorArgs, id \in NewMirrorIds(mirrors, mirrorSeq) :
        LET result == create_mirror_result(chats, s, t, TRUE)
            after == create_mirror_after(mirrors, chats, id, mirrorSeq + 1, s, t,
                                         a[1], a[2], a[3], a[4], TRUE)
        IN /\ ~HasChat(chats, s) \/ ~HasChat(chats, t)
                 => result = "none" /\ after = mirrors
           /\ HasChat(chats, s) /\ HasChat(chats, t)
                 => /\ result = "mirror"
                    /\ mirrors \subseteq after
                    /\ Cardinality(after) = Cardinality(mirrors) + 1
                    /\ \E m \in after \ mirrors :
                          /\ m.is_active
                          /\ m.source_chat_id = s /\ m.target_chat_id = t
                          /\ m.target_topic_id = a[1] /\ m.render_as_image = a[2]
                          /\ m.include_media = a[3] /\ m.include_replies = a[4]
                          /\ \A n \in mirrors : n.id # m.id

\* Two mirrors with the same source and target are in the store
C8_Witness ==
    \E m \in mirrors, n \in mirrors :
        /\ m.id # n.id
        /\ m.source_chat_id = n.source_chat_id /\ m.target_chat_id = n.target_chat_id
        /\ m.is_active /\ n.is_active

\* C9: in every reachable store, toggle_mirror of an existing mirror returns
\* it with is_active negated and nothing else changed, a second toggle restores
\* the rows, and toggle_mirror of an unknown id returns none and changes nothing.
C9_ToggleMirror ==
    \A id \in 1 .. (MaxMirrors + 1) :
        LET result == toggle_mirror_result(mirrors, id, TRUE)
            after == toggle_mirror_rows(mirrors, id, TRUE)
        IN /\ HasMirror(mirrors, id)
                 => /\ result = "mirror"
                    /\ after = (mirrors \ {MirrorRow(mirrors, id)}) \cup
                          {[MirrorRow(mirrors, id) EXCEPT
                               !.is_active = ~MirrorRow(mirrors, id).is_active]}
                    /\ toggle_mirror_rows(after, id, TRUE) = mirrors
           /\ ~HasMirror(mirrors, id) => result = "none" /\ after = mirrors

\* A mirror was switched off and another is still on
C9_Witness ==
    \E m \in mirrors, n \in mirrors : ~m.is_active /\ n.is_active

\* C10: in every reachable store, delete_mirror of an existing mirror returns
\* TRUE and removes exactly that row, delete_mirror of an unknown id returns
\* FALSE and changes nothing; a removed row never comes back, and no pass
\* delivers to a mirror that was removed before the pass began.
C10_DeleteMirror ==
    /\ \A id \in 1 .. (MaxMirrors + 1) :
          LET result == delete_mirror_result(mirrors, id, TRUE)
              after == delete_mirror_rows(mirrors, id, TRUE)
          IN /\ HasMirror(mirrors, id)
                   => result /\ after = {m \in mirrors : m.id # id}
                             /\ ~HasMirror(after, id)
             /\ ~HasMirror(mirrors, id) => ~result /\ after = mirrors
    /\ \A m \in mirrors : m.serial <= mirrorSeq
    /\ \A p \in Passes :
          /\ pass[p].deletedBefore \cap {m.serial : m \in mirrors} = {}
          /\ \A k \in 1 .. Len(pass[p].sent) :
                pass[p].targets[k].serial \notin pass[p].deletedBefore

\* A pass that began after a mirror was removed delivered to the mirror that
\* is left
C10_Witness ==
    \E p \in Passes :
        /\ pass[p].deletedBefore # {}
        /\ pass[p].sent # <<>>
        /\ Cardinality(mirrors) = 1

\* One User row and one Chat row per id
UniqueIds ==
    /\ \A u \in users, v \in users : u.id = v.id => u = v
    /\ \A c \in chats, d \in chats : c.id = d.id => c = d

\* C11: however often users and chats are resolved, also by overlapping
\* passes, the store holds one User and one Chat per id; a pass that finds the
\* User leaves the users as they are, and a pass that finds the Chat changes
\* nothing of the chats except the title of that chat.
C11_IdempotentResolution ==
    /\ []UniqueIds
    /\ [][\A p \in Passes :
            commit(p) =>
              /\ HasUser(users, pass[p].user) => users' = users
              /\ HasChat(chats, pass[p].chat) =>
                    /\ Cardinality(chats') = Cardinality(chats)
                    /\ \A c \in chats : \E d \in chats' :
                          /\ d = [c EXCEPT !.title = d.title]
                          /\ c.id # pass[p].chat => d = c]_vars

\* Two events of one user in one chat are committed, the second with another
\* title: one User, one Chat, with the title of the second
C11_Witness ==
    \E p \in Passes :
        /\ pass[p].pc = "done" /\ pass[p].result = "message"
        /\ pass[p].setTitle = "B"
        /\ Cardinality(messages) = 2
        /\ Cardinality(users) = 1
        /\ chats = {[id |-> pass[p].chat, title |-> "B",
                     is_source |-> TRUE, is_target |-> pass[p].chat = 2]}

\* C12: a committed pass leaves the is_admin / is_allowed flags of every User
\* and the is_source / is_target flags of every Chat that existed before it as
\* they were, whatever the id lists are by then.
C12_SnapshotAtCreation ==
    [][\A p \in Passes :
         commit(p) =>
           /\ \A u \in users : \E v \in users' :
                 v.id = u.id /\ v.is_admin = u.is_admin /\ v.is_allowed = u.is_allowed
           /\ \A c \in chats : \E d \in chats' :
                 d.id = c.id /\ d.is_source = c.is_source /\ d.is_target = c.is_target]_vars

\* A pass of user 1 in chat 2 is committed, with a new title, after the lists
\* changed: the chat is still a target and the user still an admin in the store
C12_Witness ==
    \E p \in Passes :
        /\ pass[p].pc = "done" /\ pass[p].result = "message"
        /\ pass[p].chat = 2 /\ pass[p].user = 1 /\ pass[p].setTitle = "B"
        /\ settings = OtherSettings
        /\ \E c \in chats : c.id = 2 /\ c.is_target /\ c.title = "B"
        /\ \E u \in users : u.id = 1 /\ u.is_admin

\* C14 as stated: in every reachable store every User with is_admin also has
\* is_allowed, after any creations and permission updates.
C14_AdminIsAllowed == \A u \in users : u.is_admin => u.is_allowed

\* is_mirrored says whether the message was counted
MirroredIffCounted(msg) == msg.is_mirrored = (msg.mirror_count >= 1)

\* C13: in every reachable state every Message, stored or in the session of a
\* pass, has is_mirrored exactly when mirror_count >= 1 (a new one has FALSE
\* and 0), and no step takes the mirror_count of a Message down.
C13_CountInvariant ==
    /\ [](/\ \A m \in messages : MirroredIffCounted(m) /\ m.mirror_count >= 0
          /\ \A p \in Passes : MirroredIffCounted(pass[p].msg)
          /\ \A p \in Passes :
                pass[p].pc = "get_mirrors"
                    => ~pass[p].msg.is_mirrored /\ pass[p].msg.mirror_count = 0)
    /\ [][/\ \A m \in messages : \E n \in messages' :
                n.id = m.id /\ n.mirror_count >= m.mirror_count
          /\ \A p \in Passes :
                pass'[p].pc \notin {"ensure_user", "closed"}
                    => pass'[p].msg.mirror_count >= pass[p].msg.mirror_count]_vars

\* The store holds a message that was never mirrored and one counted twice
C13_Witness ==
    /\ \E m \in messages : ~m.is_mirrored /\ m.mirror_count = 0
    /\ \E m \in messages : m.is_mirrored /\ m.mirror_count = 2

C16_FailureStaysLocal ==
    /\ [](\A p \in Passes : Committed(p) => \E m \in messages : m.id = p)
    /\ [][\A p \in Passes :
            /\ \A rendered \in BOOLEAN, stored \in BOOLEAN :
                  mirror_message_to_target(p, rendered, stored)
                      => /\ pass'[p].result = "pending"
                         /\ pass'[p].pc \in {"mirroring", "commit"}
                         /\ Len(pass'[p].renders) = Len(pass[p].renders) + 1
            /\ \A delivered \in BOOLEAN :
                  send_mirrored_message(p, delivered)
                      => /\ pass'[p].result = "message"
                         /\ pass'[p].pc \in {"sending", "done"}
                         /\ messages' = messages
                         /\ \E m \in messages' : m.id = p]_vars

\* A committed pass in which a render failed, a mark failed and a client call
\* raised has ended normally with its Message row in the store
C16_Witness ==
    \E p \in Passes :
        /\ pass[p].pc = "done" /\ pass[p].result = "message"
        /\ \E j \in 1 .. Len(pass[p].renders) : pass[p].renders[j] = "failed"
        /\ pass[p].markErrs >= 1
        /\ \E k \in 1 .. Len(pass[p].sent) : ~pass[p].sent[k].delivered
        /\ \E m \in messages : m.id = p /\ m.is_mirrored

\* C19 as stated: the image sent to a mirror is the one rendered with the
\* include_media and include_replies of that mirror (here for a pass whose
\* mirrors were all rendered and marked, and are the mirrors it sends to).
C19_ImageOfItsMirror ==
    \A p \in Passes : \A k \in 1 .. Len(pass[p].sent) :
        (/\ pass[p].sent[k].call = "send_photo"
         /\ pass[p].targets = pass[p].prepared
         /\ pass[p].markErrs = 0
         /\ \A j \in 1 .. Len(pass[p].renders) : pass[p].renders[j] = "image")
            => pass[p].file = RenderedImage(pass[p].targets[k].include_media,
                                            pass[p].targets[k].include_replies)

\* C20: no client call of a pass is made before the mirroring loop of the pass
\* has worked on every mirror it loaded and the pass is committed; while the
\* pass resolves, renders or commits, nothing is sent.
C20_RenderBeforeSend ==
    \A p \in Passes :
        /\ pass[p].pc \in {"ensure_user", "ensure_chat", "create_message",
                           "get_mirrors", "mirroring", "commit"}
              => pass[p].sent = <<>> /\ pass[p].targets = <<>>
        /\ pass[p].sent # <<>>
              => /\ Len(pass[p].renders) = Len(pass[p].prepared)
                 /\ pass[p].result = "message"

\* A photo was sent to the second of two mirrors, both rendered before
C20_Witness ==
    \E p \in Passes :
        /\ Len(pass[p].sent) = 2 /\ pass[p].sent[2].call = "send_photo"
        /\ pass[p].renders = <<"image", "image">>

\* C17: in a /copy_message run over any number of message ids at most GateSize
\* copies are in flight; every copy in flight holds a permit of the gate, and
\* every worker that left, with success or failure, has given its permit back.
C17_GateBound ==
    /\ Cardinality(InFlight(bulk)) <= GateSize
    /\ bulk.sem >= 0
    /\ bulk.sem + Cardinality(InFlight(bulk)) = GateSize
    /\ bulk.phase = "finished" => bulk.sem = GateSize /\ bulk.done = bulk.n

\* The gate is full, and the last worker got in after a failed one left
C17_Witness ==
    /\ bulk.n = MaxItems
    /\ Cardinality(InFlight(bulk)) = GateSize
    /\ bulk.sem = 0
    /\ bulk.fail = 1 /\ bulk.ok = 0

\* C18 as stated: a progress line without a marker is sent as an edit only
\* when the throttle interval has passed since the last sent edit (the first
\* edit of a run has none before it).
C18_ProgressThrottled ==
    (bulk.last.sent /\ ~important(bulk.last.text) /\ ~bulk.last.first)
        => bulk.last.gap >= Throttle

\* C21 as stated: when the pass found an existing Chat, the stored profile
\* (the title stands for title, username and description) is after the commit
\* equal to the value the event carries, also when the event carries none.
C21_RefreshUnconditional ==
    [][\A p \in Passes :
          (commit(p) /\ ~pass[p].newChat)
              => \E c \in chats' : c.id = pass[p].chat /\ c.title = pass[p].title]_vars

\* The fixed order of the eight kinds
MediaOrder == <<"photo", "video", "document", "audio", "voice", "sticker", "animation", "video_note">>

\* C22 as stated: an event with media of any of the eight kinds gets the tag
\* of the first kind it matches, in the fixed order, with the two file handles
\* of that kind; an event with no media gets the empty descriptor.
C22_MediaDescriptor ==
    media.pc = "extracted"
        => IF media.event = {} THEN media.info = NoMedia
           ELSE \E k \in 1 .. Len(MediaOrder) :
                  /\ MediaOrder[k] \in media.event
                  /\ \A j \in 1 .. k - 1 : MediaOrder[j] \notin media.event
                  /\ media.info = [media_type |-> MediaOrder[k],
                                   media_file_id |-> FileId(MediaOrder[k]),
                                   media_file_unique_id |-> FileUniqueId(MediaOrder[k])]

\* C23 as stated: no two stored Message rows have the same owning chat and
\* the same protocol message identifier.
C23_OneRowPerEvent ==
    \A m1 \in messages, m2 \in messages :
        (m1.chat_id = m2.chat_id /\ m1.telegram_id = m2.telegram_id) => m1 = m2

\* The state of the pass in the words of the state machine of a message
State(p) ==
    IF pass[p].pc = "idle" THEN "NONE"
    ELSE IF pass[p].pc \in {"ensure_user", "ensure_chat"} THEN "NORMALIZED"
    ELSE IF pass[p].pc = "create_message" THEN "RESOLVED"
    ELSE IF pass[p].pc \in {"get_mirrors", "mirroring", "commit"} THEN "PERSISTED"
    ELSE IF pass[p].result = "message" THEN "DISPATCHED"
    ELSE IF pass[p].result = "none" THEN "FAILED"
    ELSE "CLOSED"

\* The moves of the state machine; CLOSED is the handler having returned
Moves ==
    {<<"NONE", "NORMALIZED">>, <<"NORMALIZED", "RESOLVED">>, <<"RESOLVED", "PERSISTED">>,
     <<"PERSISTED", "DISPATCHED">>, <<"NORMALIZED", "FAILED">>, <<"RESOLVED", "FAILED">>,
     <<"PERSISTED", "FAILED">>, <<"DISPATCHED", "CLOSED">>, <<"FAILED", "CLOSED">>}

\* C24: every started pass reaches DISPATCHED or FAILED when each of its calls
\* returns or raises; its states follow NORMALIZED, RESOLVED, PERSISTED,
\* DISPATCHED, with FAILED entered from any of the first three, and a pass in
\* DISPATCHED or FAILED only ends.
C24_PassTerminates ==
    /\ \A p \in Passes :
          (pass[p].pc = "ensure_user") ~> (State(p) \in {"DISPATCHED", "FAILED"})
    /\ [][\A p \in Passes : State(p)' = State(p) \/ <<State(p), State(p)'>> \in Moves]_vars

\* A pass has failed after its Message was persisted and marked
C24_Witness ==
    \E p \in Passes :
        /\ State(p) = "FAILED"
        /\ Len(pass[p].renders) = Len(pass[p].prepared) /\ Len(pass[p].renders) >= 1
        /\ pass[p].telegram_id = TelegramId(p)

\* C25 as stated: the mirrors a pass sends to are exactly the mirrors it
\* loaded and marked, whatever create_mirror, toggle_mirror or delete_mirror
\* commits while the pass is in flight (here for a pass whose marks all went
\* through and whose sends were all issued).
C25_SendsToPrepared ==
    \A p \in Passes :
        (pass[p].pc = "done" /\ pass[p].sent # <<>> /\ pass[p].markErrs = 0)
            => {pass[p].sent[k].mirror : k \in 1 .. Len(pass[p].sent)}
                   = {pass[p].prepared[j].id : j \in 1 .. Len(pass[p].prepared)}

\* C26 as stated: two passes that run at the same time and both find the
\* chat (or the sender) unknown both end DISPATCHED: a pass that has reached
\* its commit with the store available can commit.
C26_BothDispatched ==
    \A p \in Passes : pass[p].pc = "commit" => ~Conflict(p)

\* C27 as stated: two toggle_mirror calls on the same mirror that both
\* succeeded leave is_active as it was before them, in every interleaving of
\* their reads and writes.
C27_NoLostToggle ==
    \A c \in Callers, d \in Callers :
        (/\ c # d
         /\ toggles[c].pc = "done" /\ toggles[c].result = "mirror"
         /\ toggles[d].pc = "done" /\ toggles[d].result = "mirror"
         /\ toggles[c].mirror_id = toggles[d].mirror_id)
            => MirrorRow(mirrors, toggles[c].mirror_id).is_active = toggles[c].orig

\* C28: every send_photo or copy_message of a pass is issued when the commit
\* of the pass has succeeded (its Message row is in the store and the message
\* was returned); a pass that was rolled back loads no targets and sends
\* nothing.
C28_SendAfterCommit ==
    /\ [](\A p \in Passes :
            /\ (pass[p].pc \in {"get_targets", "sending"} \/ pass[p].sent # <<>>)
                  => pass[p].result = "message" /\ \E m \in messages : m.id = p
            /\ pass[p].result = "none" => pass[p].sent = <<>>)
    /\ [][\A p \in Passes : \A delivered \in BOOLEAN :
            send_mirrored_message(p, delivered)
                => /\ pass[p].result = "message"
                   /\ \E m \in messages : m.id = p /\ m.is_mirrored]_vars

\* A pass is between two sends, its Message row committed; an earlier message
\* is in the store as well
C28_Witness ==
    \E p \in Passes :
        /\ pass[p].pc = "sending" /\ Len(pass[p].sent) = 1
        /\ \E m \in messages : m.id = p /\ m.mirror_count = 2
        /\ Cardinality(messages) = 2

\* C29: every Chat row has an id of the configured source chat list and
\* is_source = TRUE, and is_target tells whether the id is in the target list
\* as well; a chat that is only a target, or not configured, has no Chat row.
C29_ChatsAreSources ==
    /\ \A c \in chats :
          /\ c.id \in settings.source_chat_ids
          /\ c.is_source
          /\ c.is_target = (c.id \in settings.target_chat_ids)
    /\ \A id \in ChatIds \ settings.source_chat_ids : ~HasChat(chats, id)

\* Both source chats are stored, and the last event came from the chat that
\* is only a target
C29_Witness ==
    /\ Cardinality(chats) = 2
    /\ \E c \in chats : c.is_target
    /\ seen.chat \in TargetOnlyChatIds
    /\ mirrors # {}

\* Workers that have left "async with sem"
Finished(b) == {w \in 1 .. b.n : b.pc[w] = "finished"}

\* C30: in a /copy_message run over n message ids, between any two steps
\* ok + fail = done <= n and done is the number of workers that have finished;
\* the summary is reported once, when all workers have finished, with
\* ok + fail = n; and every run that was started gets there.
C30_CountsAndSummary ==
    /\ [](/\ bulk.ok + bulk.fail = bulk.done
          /\ bulk.done = Cardinality(Finished(bulk))
          /\ bulk.done <= bulk.n
          /\ bulk.phase = "finished"
                => /\ bulk.ok + bulk.fail = bulk.n
                   /\ bulk.last.text = <<"summary", 0>>)
    /\ [][/\ bulk'.last.text = <<"summary", 0>> /\ bulk.last.text # <<"summary", 0>>
                => /\ bulk.phase = "running" /\ bulk'.phase = "finished"
                   /\ Finished(bulk) = 1 .. bulk.n
          /\ bulk.phase = "finished" /\ bulk' # bulk
                => bulk'.phase = "running" /\ bulk'.done = 0]_vars
    /\ (bulk.phase = "running") ~> (bulk.phase = "finished")

\* A run over MaxCountedItems message ids has reported its summary, with
\* items that succeeded and items that failed
C30_Witness ==
    /\ bulk.phase = "finished" /\ bulk.n = MaxCountedItems
    /\ bulk.ok >= 1 /\ bulk.fail >= 1
    /\ bulk.last.sent

====
